---- MODULE Spec2Model ----
(***************************************************************************)
(* Model of mihalcea.py: the OEIS comment-author extractor, the builder    *)
(* of the co-authorship graph, and the node/link JSON codec.               *)
(*                                                                         *)
(* Python strings are sequences of one-character strings, so that          *)
(* str.split, str.endswith, string concatenation and the regular           *)
(* expression are computed character by character.                         *)
(***************************************************************************)
EXTENDS Integers, Sequences, FiniteSets

\* ------------------------------------------------------------------ bounds
\* Longest comment text enumerated by the extractor specification.
MaxLen == 5
\* Number of .json sequence files in data/sequences.
NumFiles == 2
\* Number of sequence files that lose their read permission.
MaxUnreadable == 1

\* ------------------------------------------------------- character classes
Upper == {"A","B","C","D","E","F","G","H","I","J","K","L","M",
          "N","O","P","Q","R","S","T","U","V","W","X","Y","Z"}

Digits == {"0","1","2","3","4","5","6","7","8","9"}

\* The characters the negated class [^0-9+\(\)\[\]\{\}\\\/_:;""] rejects.
Excluded == Digits \cup {"+","(",")","[","]","{","}","\\","/","_",":",";","\""}

InClass(c) == c \notin Excluded

\* ------------------------------------------------------------ str helpers
\* s[i:i+len(t)] == t, for 1-based i.
HasAt(s, i, t) ==
    /\ i >= 1
    /\ i + Len(t) - 1 <= Len(s)
    /\ \A k \in 1..Len(t) : s[i + k - 1] = t[k]

\* s.endswith(t)
EndsWith(s, t) == Len(t) <= Len(s) /\ HasAt(s, Len(s) - Len(t) + 1, t)

\* s.find(sep): the least 1-based index where sep occurs, 0 when it does not.
Find(s, sep) ==
    LET hits == {i \in 1..Len(s) : HasAt(s, i, sep)}
    IN  IF hits = {} THEN 0 ELSE CHOOSE i \in hits : \A j \in hits : i <= j

\* s.split(sep) for a non-empty sep: leftmost, non-overlapping separators.
RECURSIVE Split(_, _)
Split(s, sep) ==
    LET i == Find(s, sep)
    IN  IF i = 0 THEN <<s>>
        ELSE <<SubSeq(s, 1, i - 1)>> \o Split(SubSeq(s, i + Len(sep), Len(s)), sep)

\* ------------------------------------------------------- the regex, l.66-68
\* common_pattern at position i with n characters taken by the lazy {2,}?:
\* [A-Z], then the lookahead (?!=[A-Z]) (not "=" followed by a capital),
\* then n >= 2 characters of the negated class.
CommonAt(s, i, n) ==
    /\ i >= 1 /\ n >= 2 /\ i + n <= Len(s)
    /\ s[i] \in Upper
    /\ ~(i + 2 <= Len(s) /\ s[i + 1] = "=" /\ s[i + 2] \in Upper)
    /\ \A k \in (i + 1)..(i + n) : InClass(s[k])

\* The four (start, end) pairs of pattern_list: the lookbehind before
\* position i and the lookahead after the last matched position e.
ContextAt(s, i, e) ==
    \/ HasAt(s, i - 1, <<"_">>) /\ HasAt(s, e + 1, <<"_">>)
    \/ HasAt(s, i - 1, <<"[">>) /\ HasAt(s, e + 1, <<"]">>)
    \/ /\ HasAt(s, i - 2, <<"-", " ">>)
       /\ HasAt(s, e + 1, <<" ", "(">>) \/ HasAt(s, e + 1, <<",", " ">>)
    \/ HasAt(s, i - 1, <<"(">>) /\ HasAt(s, e + 1, <<",">>)

\* Length of the match that starts at i (0: none). The lookbehinds of the
\* four alternatives exclude one another, so the alternative is determined
\* by i and the lazy quantifier takes the least n that lets the end match.
MatchLen(s, i) ==
    IF s[i] \notin Upper THEN 0
    ELSE LET ns == {n \in 2..(Len(s) - i) : CommonAt(s, i, n) /\ ContextAt(s, i, i + n)}
         IN  IF ns = {} THEN 0
             ELSE 1 + (CHOOSE n \in ns : \A m \in ns : n <= m)

\* re.findall(pattern, comment) scanning from position pos: leftmost
\* matches, each search resuming after the end of the previous match.
RECURSIVE FindAllFrom(_, _)
FindAllFrom(s, pos) ==
    IF pos > Len(s) THEN <<>>
    ELSE LET l == MatchLen(s, pos)
         IN  IF l = 0 THEN FindAllFrom(s, pos + 1)
             ELSE <<SubSeq(s, pos, pos + l - 1)>> \o FindAllFrom(s, pos + l)

FindAll(s) == FindAllFrom(s, 1)

\* A match kept whole, never split.
SplitNamesNone(names) == <<names>>

\* names.split(', ') of line 75
SplitNames(names) == Split(names, <<",", " ">>)

\* [n for names in re.findall(pattern, comment) for n in names.split(', ')]
NamesOf(comment) ==
    LET ms == FindAll(comment)
    IN  UNION {{SplitNames(ms[j])[k] : k \in 1..Len(SplitNames(ms[j]))} : j \in 1..Len(ms)}

\* --------------------------------------------------- documents (JSON values)
\* dict.get(key): <<value>> when the key is present, <<>> (None) otherwise.
Get(d, k) == IF k \in DOMAIN d THEN <<d[k]>> ELSE <<>>

\* Python truthiness of an optional list: None and [] are falsy.
Truthy(opt) == opt # <<>> /\ opt[1] # <<>>

\* parse_authors_from_comments(raw_data), lines 70-77. The result is
\* [exc, none, authors]: exc names the exception raised ("" when it returns),
\* none says that the bare `return` of line 77 returned None.
ParseAuthors(raw_data) ==
    LET results == Get(raw_data, "results")
    IN  IF results = <<>>
        THEN \* None[0]
             [exc |-> "TypeError", none |-> TRUE, authors |-> {}]
        ELSE IF results[1] = <<>>
        THEN \* [][0]
             [exc |-> "IndexError", none |-> TRUE, authors |-> {}]
        ELSE LET comment_list == Get(results[1][1], "comment")
             IN  IF Truthy(comment_list)
                 THEN [exc |-> "", none |-> FALSE,
                       authors |-> UNION {NamesOf(comment_list[1][c]) :
                                          c \in 1..Len(comment_list[1])}]
                 ELSE [exc |-> "", none |-> TRUE, authors |-> {}]

\* `if authors:` of line 123: None and the empty set are falsy.
AuthorsTruthy(ret) == ~ret.none /\ ret.authors # {}

\* ----------------------------------------------------- networkx.Graph state
\* node: the nodes in insertion order; adj: for each node its neighbours in
\* insertion order (the dict-of-dicts adjacency of nx.Graph).
EmptyGraph == [node |-> <<>>, adj |-> <<>>]

Range(seq) == {seq[i] : i \in 1..Len(seq)}

NodeSet(G) == Range(G.node)

AddNode(G, n) ==
    IF n \in NodeSet(G) THEN G
    ELSE [node |-> Append(G.node, n),
          adj  |-> [m \in NodeSet(G) \cup {n} |-> IF m = n THEN <<>> ELSE G.adj[m]]]

\* adj[u][v] = datadict: assigning an existing key keeps a single entry.
Put(nbrs, v) == IF v \in Range(nbrs) THEN nbrs ELSE Append(nbrs, v)

\* MultiGraph.add_edge: every call adds one more edge between u and v.
AddEdgeMulti(G, u, v) ==
    LET H == AddNode(AddNode(G, u), v)
        a == [H.adj EXCEPT ![u] = Append(@, v)]
    IN  [node |-> H.node, adj |-> [a EXCEPT ![v] = Append(@, u)]]

\* Graph.add_edge(u, v)
AddEdge(G, u, v) ==
    LET H == AddNode(AddNode(G, u), v)
        a == [H.adj EXCEPT ![u] = Put(@, v)]
    IN  [node |-> H.node, adj |-> [a EXCEPT ![v] = Put(@, u)]]

\* Graph.add_edges_from(ebunch)
RECURSIVE AddEdgesFrom(_, _)
AddEdgesFrom(G, ebunch) ==
    IF ebunch = <<>> THEN G
    ELSE AddEdgesFrom(AddEdge(G, ebunch[1][1], ebunch[1][2]), Tail(ebunch))

\* Graph.add_nodes_from(nodes)
RECURSIVE AddNodesFrom(_, _)
AddNodesFrom(G, ns) ==
    IF ns = <<>> THEN G ELSE AddNodesFrom(AddNode(G, ns[1]), Tail(ns))

\* G.edges(): each node in node order with those of its neighbours that
\* were not reported from an earlier node.
RECURSIVE EdgesFrom(_, _)
EdgesFrom(G, i) ==
    IF i > Len(G.node) THEN <<>>
    ELSE LET n    == G.node[i]
             seen == {G.node[j] : j \in 1..(i - 1)}
             keep(v) == v \notin seen
             nb   == SelectSeq(G.adj[n], keep)
         IN  [k \in 1..Len(nb) |-> <<n, nb[k]>>] \o EdgesFrom(G, i + 1)

EdgesOf(G) == EdgesFrom(G, 1)

\* G.number_of_edges()
NumberOfEdges(G) == Len(EdgesOf(G))

\* the unordered pairs joined by an edge
EdgeSet(G) == {{e[1], e[2]} : e \in Range(EdgesOf(G))}

\* The iteration orders of a Python set: every arrangement of its members.
Orders(S) == {o \in [1..Cardinality(S) -> S] : \A i, j \in 1..Cardinality(S) : o[i] = o[j] => i = j}

\* itertools.permutations(xs, 2): every ordered pair of distinct positions.
RECURSIVE Permutations2From(_, _)
Permutations2From(xs, i) ==
    IF i > Len(xs) THEN <<>>
    ELSE LET others == [k \in 1..(Len(xs) - 1) |-> IF k < i THEN xs[k] ELSE xs[k + 1]]
         IN  [k \in 1..Len(others) |-> <<xs[i], others[k]>>] \o Permutations2From(xs, i + 1)

Permutations2(xs) == Permutations2From(xs, 1)

\* itertools.pairwise(xs): consecutive elements only.
Pairwise(xs) == [k \in 1..(IF Len(xs) = 0 THEN 0 ELSE Len(xs) - 1) |-> <<xs[k], xs[k + 1]>>]

\* list(itertools.combinations(xs, 2)): the pairs (xs[i], xs[j]), i < j,
\* in lexicographic order of the positions.
RECURSIVE Combinations2(_)
Combinations2(xs) ==
    IF Len(xs) < 2 THEN <<>>
    ELSE [k \in 1..(Len(xs) - 1) |-> <<xs[1], xs[k + 1]>>] \o Combinations2(Tail(xs))

\* ------------------------------------------------------ node/link JSON codec
\* nx.readwrite.json_graph.node_link_data(G), line 131
NodeLinkData(G) ==
    [directed   |-> FALSE,
     multigraph |-> FALSE,
     nodes      |-> [i \in 1..Len(G.node) |-> [id |-> G.node[i]]],
     links      |-> LET edges == EdgesOf(G)
                    IN  [i \in 1..Len(edges) |->
                            [source |-> edges[i][1], target |-> edges[i][2]]]]

\* A decoder that reads the node list and forgets the links.
NodeLinkGraphNodesOnly(data) ==
    AddNodesFrom(EmptyGraph, [i \in 1..Len(data.nodes) |-> data.nodes[i].id])

\* nx.readwrite.json_graph.node_link_graph(data), line 152: a Graph (the
\* document says directed false, multigraph false), every node id added,
\* then every link added as an edge.
NodeLinkGraph(data) ==
    AddEdgesFrom(AddNodesFrom(EmptyGraph, [i \in 1..Len(data.nodes) |-> data.nodes[i].id]),
                 [i \in 1..Len(data.links) |-> <<data.links[i].source, data.links[i].target>>])

\* ------------------------------------------------------------------- paths
\* 'data/sequences', the directory main passes at line 204
DirArg == <<"d","a","t","a","/","s","e","q","u","e","n","c","e","s">>

\* 'comments_authors_graph', the default filename of line 80
DefaultFilename == <<"c","o","m","m","e","n","t","s","_","a","u","t","h","o","r","s","_","g","r","a","p","h">>

\* 'data/comments_authors_graph.json', the path main loads at line 209
LoadPathArg == <<"d","a","t","a","/","c","o","m","m","e","n","t","s","_","a","u","t","h","o","r","s","_","g","r","a","p","h",".","j","s","o","n">>

\* 'data/sequences/A000001.json', the sample file of line 179
SamplePath == <<"d","a","t","a","/","s","e","q","u","e","n","c","e","s","/","A","0","0","0","0","0","1",".","j","s","o","n">>

JsonExt == <<".","j","s","o","n">>

\* lines 108-109: a trailing '/' is appended when missing
DirPath(dir_path) ==
    IF dir_path[Len(dir_path)] # "/" THEN dir_path \o <<"/">> ELSE dir_path

\* The output path placed inside the scanned directory itself.
SavePathInDir(dir_path, filename) == dir_path \o filename \o JsonExt

\* line 130: dir_path.split('/')[0] + '/' + filename + '.json'
SavePath(dir_path, filename) ==
    Split(dir_path, <<"/">>)[1] \o <<"/">> \o filename \o JsonExt

\* The name of the i-th sequence file: A000001.json, A000002.json, ...
SeqName(i) == <<"A","0","0","0","0","0">> \o <<SubSeq(<<"0","1","2","3","4","5","6","7","8","9">>, i + 1, i + 1)[1]>> \o JsonExt

\* os.listdir('data/sequences/'): the sequence files and one other file.
Listing == {SeqName(i) : i \in 1..NumFiles} \cup {<<"n","o","t","e","s",".","t","x","t">>}

\* line 110: the names that end with '.json'
JsonFiles == {json_file \in Listing : EndsWith(json_file, JsonExt)}

SeqPaths == {DirPath(DirArg) \o name : name \in JsonFiles}

\* ---------------------------------------------------------------- corpus
Number == [number |-> 1]

Entry(comments) == [number |-> 1, comment |-> comments]

\* The JSON documents a sequence file may hold.
DocNoResults    == [count |-> 0]
DocEmptyResults == [count |-> 0, results |-> <<>>]
DocNoComment    == [count |-> 1, results |-> <<Number>>]
DocEmptyComment == [count |-> 1, results |-> <<Entry(<<>>)>>]
DocOne          == [count |-> 1, results |-> <<Entry(<<<<"_","E","f","f","_"," ","w","r","o","t","e",".">>>>)>>]
DocPair         == [count |-> 1, results |-> <<Entry(<<<<"_","A","b","b","_",","," ","_","C","d","d","_">>>>)>>]
DocSplit        == [count |-> 1, results |-> <<Entry(<<<<"_","C","d","d",","," ","E","f","f","_">>>>)>>]
DocTriple       == [count |-> 1, results |-> <<Entry(<<<<"_","A","b","b","_"," ","[","E","f","f","]">>, <<"-"," ","C","d","d"," ","(","1",")">>>>)>>]

Docs == {DocNoResults, DocEmptyResults, DocNoComment, DocEmptyComment,
         DocOne, DocPair, DocSplit, DocTriple}

\* The documents the sequence files of the builder's directory are drawn from.
CorpusDocs == {DocNoResults, DocNoComment, DocOne, DocPair, DocTriple}

\* What a file holds: well-formed JSON with its value, or text json.load rejects.
Contents == {[valid |-> TRUE, data |-> d] : d \in CorpusDocs}
            \cup {[valid |-> FALSE, data |-> DocNoResults]}

\* ------------------------------------------------------------------ state
VARIABLES
    corpus,      \* path -> contents of the sequence files of data/sequences
    unreadable,  \* the sequence files open() fails on (OSError)
    graphfiles,  \* path -> node/link document, for the graph files written
    pc,          \* "idle" (no process), "build", "loop", "load"
    mode,        \* args.build_graph of the current or last run
    file_list,   \* the names of file_list not yet visited by the loop
    G,           \* the graph of the running process; after it, the graph main got
    f,           \* loop variable: the file being processed (<<>> before the first)
    authors,     \* result of parse_authors_from_comments for f
    added,       \* the edge list handed to G.add_edges_from for f
    G_prev,      \* G before f was processed
    folded,      \* files loaded, extracted and folded by the current run
    built,       \* <<[node, edge]>>: node and edge set of the graph returned by
                 \* the last completed build (<<>> before any)
    out,         \* messages the program printed (stdout) in the current or last run
    exc,         \* the uncaught exception that ended the last run ("" if none)
    context,     \* the exception that was being handled when exc was raised
    failed_path, \* the path whose open() failed in the last run (<<>> if none)
                 \* (exc, context and failed_path are what the interpreter's
                 \* traceback on stderr reports; the program prints none of it)
    status,      \* exit status of the last run (-1 while running or before any)
    x_doc,       \* extractor specification: the document given
    x_ret,       \* extractor specification: the result
    x_pc         \* extractor specification: "call" or "done"

vars == <<corpus, unreadable, graphfiles, pc, mode, file_list, G, f, authors,
          added, G_prev, folded, built, out, exc, context,
          failed_path, status, x_doc, x_ret, x_pc>>

extractVars == <<x_doc, x_ret, x_pc>>

mainVars == <<corpus, unreadable, graphfiles, pc, mode, file_list, G, f, authors,
              added, G_prev, folded, built, out, exc, context,
              failed_path, status>>

NoAuthors == [exc |-> "", none |-> TRUE, authors |-> {}]

Msg(text, arg) == [text |-> text, arg |-> arg]

\* --------------------------------------------------------------- load_json
\* A load_json that answers an unopenable file with a record without comments.
LoadJsonLenient(file_path, print_content) ==
    IF file_path \notin DOMAIN corpus \/ file_path \in unreadable
    THEN [exc |-> "", context |-> "", out |-> <<>>, data |-> DocNoComment]
    ELSE IF ~corpus[file_path].valid
    THEN [exc |-> "JSONDecodeError", context |-> "", out |-> <<>>, data |-> DocNoResults]
    ELSE [exc |-> "", context |-> "", out |-> <<>>, data |-> corpus[file_path].data]

\* load_json(file_path, print_content), lines 30-44. The result is
\* [exc, context, out, data]. When open() raises OSError the handler
\* evaluates 'Could not open file:' + file + ... with the local `file`
\* still unbound: that raises UnboundLocalError before print is called, so
\* nothing is printed and sys.exit() of line 34 is never reached.
LoadJson(file_path, print_content) ==
    IF file_path \notin DOMAIN corpus \/ file_path \in unreadable
    THEN [exc |-> "UnboundLocalError", context |-> "OSError", out |-> <<>>,
          data |-> DocNoResults]
    ELSE IF ~corpus[file_path].valid
    THEN [exc |-> "JSONDecodeError", context |-> "", out |-> <<>>, data |-> DocNoResults]
    ELSE [exc |-> "", context |-> "",
          out |-> IF print_content
                  THEN LET parts == Split(file_path, <<"/">>)
                       IN  <<Msg("File contents:", parts[Len(parts)])>>
                  ELSE <<>>,
          data |-> corpus[file_path].data]

\* ------------------------------------------------- build_graph_from_directory
\* Lines 123-125 with line 124 (G.add_nodes_from(authors)) enabled.
FoldAuthorsWithNodes(g, ret, order) ==
    IF AuthorsTruthy(ret) THEN AddEdgesFrom(AddNodesFrom(g, order), Combinations2(order)) ELSE g

\* Lines 123-125: `order` is the order in which the set `authors` iterates.
FoldAuthors(g, ret, order) ==
    IF AuthorsTruthy(ret) THEN AddEdgesFrom(g, Combinations2(order)) ELSE g

\* The argument of G.add_edges_from at line 125 (nothing when line 123 is falsy).
EdgeList(ret, order) == IF AuthorsTruthy(ret) THEN Combinations2(order) ELSE <<>>

\* An uncaught exception: the interpreter prints the traceback and exits with 1.
Crash(e, ctx, path) ==
    /\ exc' = e
    /\ context' = ctx
    /\ failed_path' = path
    /\ status' = 1
    /\ pc' = "idle"

\* main(args), lines 176-209, up to the call that builds or loads: the sample
\* file is loaded and printed, then args.build_graph selects the branch.
Main(m) ==
    /\ pc = "idle"
    /\ mode' = m
    /\ folded' = {}
    /\ f' = <<>>
    /\ authors' = NoAuthors
    /\ added' = <<>>
    /\ G' = EmptyGraph
    /\ G_prev' = EmptyGraph
    /\ file_list' = {}
    /\ UNCHANGED <<corpus, unreadable, graphfiles, built, extractVars>>
    /\ LET r  == LoadJson(SamplePath, TRUE)
           o1 == <<Msg("Printing sample OEIS JSON file...", <<>>)>> \o r.out
       IN  IF r.exc # ""
           THEN /\ out' = o1
                /\ Crash(r.exc, r.context, IF r.context = "OSError" THEN SamplePath ELSE <<>>)
           ELSE LET results == Get(r.data, "results")
                    o2 == o1 \o <<Msg("Printing sample file \"results\"' section...", <<>>),
                                  IF Truthy(results)
                                  THEN Msg("results[0]", <<>>)
                                  ELSE Msg("No \"results\" section found.", <<>>)>>
                IN  IF results = <<>>
                    THEN out' = o2 /\ Crash("TypeError", "", <<>>)
                    ELSE IF results[1] = <<>>
                    THEN out' = o2 /\ Crash("IndexError", "", <<>>)
                    ELSE LET comment_list == Get(results[1][1], "comment")
                             o3 == o2 \o <<Msg("Printing sample file \"comment\"'s subsection...", <<>>),
                                           IF Truthy(comment_list)
                                           THEN Msg("comment", <<>>)
                                           ELSE Msg("No \"comments\" subsection found.", <<>>)>>
                         IN  /\ out' = o3 \o <<IF m = "True"
                                               THEN Msg("Building graph G, where:", <<>>)
                                               ELSE Msg("Loading graph G from", LoadPathArg)>>
                             /\ pc' = IF m = "True" THEN "build" ELSE "load"
                             /\ exc' = ""
                             /\ context' = ""
                             /\ failed_path' = <<>>
                             /\ status' = -1

\* lines 107-114: the file list and the empty graph
BuildStart ==
    /\ pc = "build"
    /\ file_list' = JsonFiles
    /\ G' = EmptyGraph
    /\ pc' = "loop"
    /\ UNCHANGED <<corpus, unreadable, graphfiles, mode, f, authors, added, G_prev,
                   folded, built, out, exc, context, failed_path,
                   status, extractVars>>

\* The process dies inside the loop: its graph and its locals are gone.
Discard ==
    /\ G' = EmptyGraph
    /\ G_prev' = EmptyGraph
    /\ f' = <<>>
    /\ file_list' = {}
    /\ authors' = NoAuthors
    /\ added' = <<>>
    /\ folded' = {}

\* One iteration of the loop of lines 117-126. os.listdir returns the names
\* in arbitrary order, so any unvisited name may come next; `order` is the
\* order in which the set `authors` iterates at line 125.
ProcessFile(name) ==
    /\ pc = "loop"
    /\ name \in file_list
    /\ LET file_path == DirPath(DirArg) \o name
           r   == LoadJson(file_path, FALSE)
           ret == IF r.exc = "" THEN ParseAuthors(r.data) ELSE NoAuthors
       IN  \E order \in Orders(ret.authors) :
           /\ out' = out \o r.out
           /\ IF r.exc # ""
              THEN /\ Crash(r.exc, r.context, IF r.context = "OSError" THEN file_path ELSE <<>>)
                   /\ Discard
              ELSE IF ret.exc # ""
              THEN /\ Crash(ret.exc, "", <<>>)
                   /\ Discard
              ELSE /\ f' = name
                   /\ file_list' = file_list \ {name}
                   /\ authors' = ret
                   /\ added' = EdgeList(ret, order)
                   /\ G_prev' = G
                   /\ G' = FoldAuthors(G, ret, order)
                   /\ folded' = folded \cup {name}
                   /\ UNCHANGED <<pc, exc, context, failed_path, status>>
    /\ UNCHANGED <<corpus, unreadable, graphfiles, mode, built,
                   extractVars>>

\* lines 128-133 with save=True, then the return of main: the document is
\* written and the process exits with status 0.
BuildFinish ==
    /\ pc = "loop"
    /\ file_list = {}
    /\ LET path == SavePath(DirPath(DirArg), DefaultFilename)
       IN  graphfiles' = [p \in DOMAIN graphfiles \cup {path} |->
                             IF p = path THEN NodeLinkData(G) ELSE graphfiles[p]]
    /\ built' = <<[node |-> NodeSet(G), edge |-> EdgeSet(G)]>>
    /\ status' = 0
    /\ pc' = "idle"
    /\ f' = <<>>
    /\ authors' = NoAuthors
    /\ added' = <<>>
    /\ G_prev' = EmptyGraph
    /\ UNCHANGED <<corpus, unreadable, mode, file_list, G, folded, out,
                   exc, context, failed_path, extractVars>>

\* load_json_graph('data/comments_authors_graph.json'), lines 151-152 and 209
LoadGraph ==
    /\ pc = "load"
    /\ IF LoadPathArg \in DOMAIN graphfiles
       THEN /\ G' = NodeLinkGraph(graphfiles[LoadPathArg])
            /\ status' = 0
            /\ pc' = "idle"
            /\ UNCHANGED <<exc, context, failed_path>>
       ELSE /\ Crash("FileNotFoundError", "", <<>>)
            /\ UNCHANGED G
    /\ UNCHANGED <<corpus, unreadable, graphfiles, mode, file_list, f, authors, added,
                   G_prev, folded, built, out, extractVars>>

\* Between two runs a sequence file loses its read permission.
Chmod(p) ==
    /\ pc = "idle"
    /\ p \in SeqPaths \ unreadable
    /\ Cardinality(unreadable) < MaxUnreadable
    /\ unreadable' = unreadable \cup {p}
    /\ UNCHANGED <<corpus, graphfiles, pc, mode, file_list, G, f, authors, added,
                   G_prev, folded, built, out, exc, context,
                   failed_path, status, extractVars>>

Init ==
    /\ corpus \in [SeqPaths -> Contents]
    /\ unreadable = {}
    /\ graphfiles = <<>>
    /\ pc = "idle"
    /\ mode = "False"
    /\ file_list = {}
    /\ G = EmptyGraph
    /\ f = <<>>
    /\ authors = NoAuthors
    /\ added = <<>>
    /\ G_prev = EmptyGraph
    /\ folded = {}
    /\ built = <<>>
    /\ out = <<>>
    /\ exc = ""
    /\ context = ""
    /\ failed_path = <<>>
    /\ status = -1
    /\ x_doc = DocNoResults
    /\ x_ret = NoAuthors
    /\ x_pc = "done"

Next ==
    \/ \E m \in {"True", "False"} : Main(m)
    \/ BuildStart
    \/ \E name \in JsonFiles : ProcessFile(name)
    \/ BuildFinish
    \/ LoadGraph
    \/ \E p \in SeqPaths : Chmod(p)

Spec == Init /\ [][Next]_vars

\* ------------------------------------------- the extractor on its own
\* The characters of the enumerated comment texts.
Alphabet == {"A", "b", "_", ",", " ", "(", "[", "]"}

Texts == UNION {[1..n -> Alphabet] : n \in 0..MaxLen}

ExtractDocs == {[count |-> 1, results |-> <<Entry(<<t>>)>>] : t \in Texts} \cup Docs

\* authors = parse_authors_from_comments(raw_data)
Extract ==
    /\ x_pc = "call"
    /\ x_ret' = ParseAuthors(x_doc)
    /\ x_pc' = "done"
    /\ UNCHANGED <<x_doc, mainVars>>

ExtractInit ==
    /\ x_doc \in ExtractDocs
    /\ x_ret = NoAuthors
    /\ x_pc = "call"
    /\ corpus = [p \in SeqPaths |-> [valid |-> TRUE, data |-> DocNoComment]]
    /\ unreadable = {}
    /\ graphfiles = <<>>
    /\ pc = "idle"
    /\ mode = "False"
    /\ file_list = {}
    /\ G = EmptyGraph
    /\ f = <<>>
    /\ authors = NoAuthors
    /\ added = <<>>
    /\ G_prev = EmptyGraph
    /\ folded = {}
    /\ built = <<>>
    /\ out = <<>>
    /\ exc = ""
    /\ context = ""
    /\ failed_path = <<>>
    /\ status = -1

ExtractNext == Extract

SpecExtract == ExtractInit /\ [][ExtractNext]_vars

\* ================================================================ properties
\* The unordered pairs of distinct members of S.
CliqueEdges(S) == {e \in SUBSET S : Cardinality(e) = 2}

\* The author set extracted from a sequence file of the directory.
AuthorSet(name) == ParseAuthors(corpus[DirPath(DirArg) \o name].data).authors

\* The loop of the builder has visited every file: G is the final graph.
BuildDone ==
    \/ pc = "loop" /\ file_list = {}
    \/ pc = "idle" /\ mode = "True" /\ status = 0

\* The loop has just folded file f.
Processed == pc = "loop" /\ f # <<>>

\* A run in load mode has completed.
LoadDone == pc = "idle" /\ mode = "False" /\ status = 0

\* C1: the final graph has an edge {a, b}, a # b, exactly when some record's
\* author set contains both: the edge set is the union of the per-file clique
\* edge sets, whatever the order in which the files were processed.
C1_EdgesAreUnionOfCliques ==
    BuildDone =>
        /\ EdgeSet(G) = UNION {CliqueEdges(AuthorSet(name)) : name \in JsonFiles}
        /\ \A a, b \in UNION {AuthorSet(name) : name \in JsonFiles} :
              ({a, b} \in EdgeSet(G)) <=>
              (a # b /\ \E name \in JsonFiles : {a, b} \subseteq AuthorSet(name))

C1_Witness ==
    /\ BuildDone
    /\ \E n1, n2 \in JsonFiles :
          /\ Cardinality(AuthorSet(n1)) = 2
          /\ Cardinality(AuthorSet(n2)) = 3
    /\ Cardinality(EdgeSet(G)) = 3

Rearranged(doc, pn, pl) ==
    [doc EXCEPT !.nodes = [i \in 1..Len(doc.nodes) |-> doc.nodes[pn[i]]],
                !.links = [i \in 1..Len(doc.links) |-> doc.links[pl[i]]] \o doc.links]

SameGraph(H, K) == NodeSet(H) = NodeSet(K) /\ EdgeSet(H) = EdgeSet(K)

\* C4: encoding a graph of the builder to the node/link document and decoding
\* it gives the same node set and the same edge set (in every state of the
\* fold); for the graph a run ends with, the order of the nodes and links of
\* the document is irrelevant and repeated links give one edge.
C4_RoundTrip ==
    LET doc == NodeLinkData(G)
    IN  /\ SameGraph(NodeLinkGraph(doc), G)
        /\ NumberOfEdges(NodeLinkGraph(doc)) = NumberOfEdges(G)
        /\ pc = "idle" =>
              \A pn \in Orders(1..Len(doc.nodes)) : \A pl \in Orders(1..Len(doc.links)) :
                 LET H == NodeLinkGraph(Rearranged(doc, pn, pl))
                 IN  SameGraph(H, G) /\ NumberOfEdges(H) = Cardinality(EdgeSet(G))

C4_Witness ==
    /\ LoadDone
    /\ Cardinality(EdgeSet(G)) = 3
    /\ Cardinality(NodeSet(G)) = 3

\* The document has no `results` key, or its first result has no `comment`
\* key or an empty comment list.
LacksComments(d) ==
    \/ "results" \notin DOMAIN d
    \/ /\ "results" \in DOMAIN d
       /\ d.results # <<>>
       /\ ~Truthy(Get(d.results[1], "comment"))

\* C5: for a document without `results`, or whose first result has no
\* comment or an empty comment list, the extractor returns no authors and
\* raises nothing.
C5_MissingFieldsYieldNoAuthors ==
    (x_pc = "done" /\ LacksComments(x_doc)) => (x_ret.exc = "" /\ x_ret.authors = {})

\* C6: when load_json cannot open its path the process ends with a non-zero
\* status after printing a diagnostic that names the path.
C6_LoadFailureDiagnostic ==
    (pc = "idle" /\ failed_path # <<>>) =>
        /\ status # 0
        /\ \E i \in 1..Len(out) : out[i].arg = failed_path

\* No edge of H joins a node to itself, no neighbour is listed twice, and
\* adjacency is symmetric.
Simple(H) ==
    /\ \A n \in NodeSet(H) : n \notin Range(H.adj[n])
    /\ \A n \in NodeSet(H) : Cardinality(Range(H.adj[n])) = Len(H.adj[n])
    /\ \A n \in NodeSet(H) : \A m \in Range(H.adj[n]) : n \in Range(H.adj[m])
    /\ NumberOfEdges(H) = Cardinality(EdgeSet(H))
    /\ Cardinality(NodeSet(H)) = Len(H.node)

\* C7: the graph is simple in every state of the fold; a record whose pairs
\* are all present leaves the graph unchanged, and when every record yields
\* the same two authors the graph has one edge and two nodes.
C7_SimpleGraph ==
    /\ Simple(G)
    /\ (Processed /\ Cardinality(authors.authors) >= 2
          /\ CliqueEdges(authors.authors) \subseteq EdgeSet(G_prev)) => G = G_prev
    /\ (BuildDone /\ \A name \in JsonFiles :
            Cardinality(AuthorSet(name)) = 2 /\ AuthorSet(name) = AuthorSet(SeqName(1)))
          => (NumberOfEdges(G) = 1 /\ Len(G.node) = 2)

C7_Witness ==
    /\ Processed
    /\ Cardinality(authors.authors) = 2
    /\ CliqueEdges(authors.authors) \subseteq EdgeSet(G_prev)
    /\ NumberOfEdges(G) = 1

\* The matches of the pattern in the comments of document d.
MatchesIn(d) ==
    LET comments == d.results[1].comment
    IN  UNION {Range(FindAll(comments[c])) : c \in 1..Len(comments)}

Returned == x_pc = "done" /\ x_ret.exc = "" /\ ~x_ret.none

\* C8 as stated: no member of the returned author set contains a comma.
C8_NoCommaInAuthors ==
    Returned => \A a \in x_ret.authors : "," \notin Range(a)

\* C8 amended: each match is split at ", " (a comma followed by a space) and
\* each part is a member of the returned set; no member contains ", ".
C8_SplitOnCommaSpace ==
    Returned =>
        /\ x_ret.authors = UNION {Range(Split(m, <<",", " ">>)) : m \in MatchesIn(x_doc)}
        /\ \A a \in x_ret.authors : Find(a, <<",", " ">>) = 0

C8_Witness ==
    /\ Returned
    /\ \E m \in MatchesIn(x_doc) : Find(m, <<",", " ">>) # 0
    /\ Cardinality(x_ret.authors) = 2

\* Every sequence file of the directory can be opened and parsed as JSON.
AllLoadable == \A p \in SeqPaths : p \notin unreadable /\ corpus[p].valid

\* C9: a graph document is written only by the step that follows the last
\* file of the loop, once every .json file has been loaded, extracted and
\* folded, and that step ends the run; a run in which a load fails writes
\* nothing and leaves the document of an earlier run as it was.
C9_WriteOnlyAfterFullScan ==
    [][(graphfiles' # graphfiles) =>
          /\ pc = "loop" /\ file_list = {} /\ folded = JsonFiles
          /\ AllLoadable
          /\ pc' = "idle" /\ status' = 0
          /\ DOMAIN graphfiles' = DOMAIN graphfiles \cup {LoadPathArg}
          /\ graphfiles'[LoadPathArg] = NodeLinkData(G)]_vars

C9_Witness ==
    /\ pc = "idle" /\ mode = "True" /\ status = 1
    /\ failed_path \in SeqPaths \ {SamplePath}
    /\ LoadPathArg \in DOMAIN graphfiles
    /\ graphfiles[LoadPathArg].links # <<>>

\* C10: build mode writes the document at the path load mode reads, so after
\* a completed build a run in load mode gets the nodes and edges that were
\* built.
C10_BuildThenLoad ==
    /\ built # <<>> =>
          /\ DOMAIN graphfiles = {LoadPathArg}
          /\ NodeSet(NodeLinkGraph(graphfiles[LoadPathArg])) = built[1].node
          /\ EdgeSet(NodeLinkGraph(graphfiles[LoadPathArg])) = built[1].edge
    /\ LoadDone =>
          /\ built # <<>>
          /\ NodeSet(G) = built[1].node
          /\ EdgeSet(G) = built[1].edge

C10_Witness ==
    /\ LoadDone
    /\ built # <<>>
    /\ EdgeSet(G) # {}
    /\ EdgeSet(G) = built[1].edge

====
